---- MODULE Spec2Model ----
(***************************************************************************)
(* The monitoring dashboard of team-c-monitor/frontend/app.py.             *)
(*                                                                         *)
(* app.py is a Streamlit script: every rerun executes it from the top.     *)
(* The only state that outlives a run is st.session_state.history; the     *)
(* fetched snapshot `data` is a variable of the run.  A rerun is requested *)
(* by the st_autorefresh timer (line 42) and by every widget interaction   *)
(* (lines 49-53).  A run that is asked to stop ends at its next st.* call  *)
(* or st.session_state access; until then it keeps executing, so a run     *)
(* blocked in requests.get / requests.post outlives the request to stop it.*)
(*                                                                         *)
(* The page: an element that a run writes replaces the element the         *)
(* previous run left at the same place; what a run has not written again   *)
(* stays on the page until the run finishes, and leaves it then.  A run    *)
(* that is stopped for a rerun changes nothing on the page any more.       *)
(*                                                                         *)
(* Numbers are fixed point: rates in thousandths (error_rate 0.05 is 50,   *)
(* an ErrorRate of 5.0 percent is 5000), latencies in ms, the cost in      *)
(* ten-thousandths of a dollar.  Texts are sequences of one-character      *)
(* strings; a character outside ASCII is written by its code point.        *)
(* JSON values carry their type: Num, Str, Arr, Obj, Null (booleans are    *)
(* not modelled).                                                          *)
(***************************************************************************)
EXTENDS Integers, Sequences, FiniteSets, TLC

VARIABLES
    history,      \* st.session_state.history: sequence of rows (Time, Throughput, ErrorRate)
    pc,           \* position of the current script run, "idle" when none is executing
    data,         \* the run's `data` (what response.json() returned), NoData while unbound
    button,       \* value st.button returns in the current run
    posts,        \* iterations of the burst loop done by the current run
    toggle,       \* state of the "Live Stream Simulation" toggle widget
    timerOn,      \* the st_autorefresh component is mounted in the page
    now,          \* wall clock, in seconds
    backend,      \* what the backend does with a request: "up", "down", "garbled"
    metrics,      \* the body the backend serves on GET /metrics while "up"
    oldWait,      \* stopped runs whose GET /metrics is still outstanding
    oldBurst,     \* stopped runs that are still inside the burst loop
    view,         \* what the page shows
    cause,        \* what requested the current run: "load", "timer", "user"
    log,          \* the row derived from every successful fetch of a run, in order
    atStart,      \* the session history as the current run found it
    clean,        \* no run was stopped between its successful fetch and line 80
    events,       \* toggle flips, slider moves and backend changes so far
    bursts,       \* presses of the burst button so far
    failed,       \* POSTs of the current run that raised and were swallowed
    got,          \* the bodies that successful fetches parsed, in order
    k_threshold,  \* position of the "Anomaly Sensitivity (k)" slider, in tenths
    entry         \* passes of the incident loop (line 144) done by the current run

vars == <<history, pc, data, button, posts, toggle, timerOn, now, backend, metrics,
          oldWait, oldBurst, view, cause, log, atStart, clean, events, bursts,
          failed, got, k_threshold, entry>>

----------------------------------------------------------------------------
(* Bounds of the model *)

MaxTicks == 2       \* timer firings in Spec
MaxEvents == 2      \* toggle flips and backend changes in Spec
MaxBursts == 1      \* presses of the burst button in SpecBurst
BurstTicks == 1     \* timer firings in SpecBurst
BurstFaults == 1    \* backend changes in SpecBurst
LiveTicks == 2      \* timer firings in SpecLive
LiveFaults == 2     \* backend changes in SpecLive
FillTicks == 22     \* timer firings in SpecFill
MaxFaults == 1      \* toggle flips and backend changes in SpecFill
FieldTicks == 2     \* timer firings in SpecFields
FieldFaults == 2    \* backend changes in SpecFields
WidgetTicks == 2    \* timer firings in SpecWidgets
WidgetEvents == 2   \* toggle flips and slider moves in SpecWidgets

(* Program constants *)

Capacity == 20      \* tail(20)
BurstSize == 30     \* range(30)
RefreshSecs == 5    \* st_autorefresh(interval=5000)

StartClock == 24 * 3600 - 10   \* the session opens at 23:59:50

----------------------------------------------------------------------------
(* Texts *)

\* the cased characters of the model that str.upper maps to one character:
\* a-z, e acute (u+00E9), dotless i (u+0131) and long s (u+017F)
Lo == <<"a","b","c","d","e","f","g","h","i","j","k","l","m",
        "n","o","p","q","r","s","t","u","v","w","x","y","z",
        "u+00E9", "u+0131", "u+017F">>
Up == <<"A","B","C","D","E","F","G","H","I","J","K","L","M",
        "N","O","P","Q","R","S","T","U","V","W","X","Y","Z",
        "u+00C9", "I", "S">>

\* the characters of the model that str.upper leaves as they are
Uncased == {Up[i] : i \in 1..Len(Up)}
             \cup {"0","1","2","3","4","5","6","7","8","9"," ",":",".","-","_"}

\* str.upper() on one character; sharp s (u+00DF) and the ligature fi
\* (u+FB01) become two characters
UpperChar(c) ==
    CASE \E i \in 1..Len(Lo) : Lo[i] = c -> <<Up[CHOOSE i \in 1..Len(Lo) : Lo[i] = c]>>
      [] c = "u+00DF" -> <<"S", "S">>
      [] c = "u+FB01" -> <<"F", "I">>
      [] c \in Uncased -> <<c>>

\* alert.upper()
RECURSIVE Upper(_)
Upper(s) == IF s = <<>> THEN <<>> ELSE UpperChar(Head(s)) \o Upper(Tail(s))

\* t in s
Contains(s, t) ==
    \E off \in 0..(Len(s) - Len(t)) : \A j \in 1..Len(t) : s[off + j] = t[j]

CRITICAL == <<"C","R","I","T","I","C","A","L">>

TxtCritical == <<"C","R","I","T","I","C","A","L",":"," ","e","r","r">>
TxtLatency  == <<"l","a","t","e","n","c","y"," ","u","p">>
TxtLower    == <<"c","r","i","t","i","c","a","l"," ","e","r","r">>
TxtMixed    == <<"n","o","n","C","r","i","T","i","c","a","L">>
TxtNear     == <<"C","R","I","T","I","C"," ","A","L">>
\* "stra(sharp s)e cr(dotless i)t(dotless i)cal"
TxtDotless  == <<"s","t","r","a","u+00DF","e"," ",
                 "c","r","u+0131","t","u+0131","c","a","l">>

----------------------------------------------------------------------------
(* JSON values, as response.json() returns them *)

Num(n) == [num |-> n]
Str(s) == [str |-> s]
Arr(items) == [arr |-> items]
Obj(fields) == [obj |-> fields]
Null == [null |-> TRUE]

IsNum(v) == DOMAIN v = {"num"}
IsStr(v) == DOMAIN v = {"str"}
IsArr(v) == DOMAIN v = {"arr"}
IsObj(v) == DOMAIN v = {"obj"}
IsNull(v) == DOMAIN v = {"null"}

\* `not v`
Falsy(v) ==
    \/ IsNull(v)
    \/ IsNum(v) /\ v.num = 0
    \/ IsStr(v) /\ v.str = <<>>
    \/ IsArr(v) /\ v.arr = <<>>
    \/ IsObj(v) /\ DOMAIN v.obj = {}

\* s * n on a str or a list
Repeat(s, n) == [i \in 1..(n * Len(s)) |-> s[((i - 1) % Len(s)) + 1]]

\* v * n does not raise TypeError
CanMultiply(v) == IsNum(v) \/ IsStr(v) \/ IsArr(v)

\* v * n
Times(v, n) ==
    CASE IsNum(v) -> Num(v.num * n)
      [] IsStr(v) -> Str(Repeat(v.str, n))
      [] IsArr(v) -> Arr(Repeat(v.arr, n))

\* f"{v:.1f}", f"{v:.0f}", f"{v:.4f}" do not raise
CanFormat(v) == IsNum(v)

\* the run's `data` before line 71
NoData == [unbound |-> TRUE]

\* data.get(key, default) on a dict
Get(d, key, default) == IF key \in DOMAIN d.obj THEN d.obj[key] ELSE default

----------------------------------------------------------------------------
(* The /metrics bodies the backend can serve *)

NoFields == [key \in {} |-> Null]

BodyEmpty == Obj(NoFields)
BodyQuiet == Obj([requests_per_min |-> Num(10), error_rate |-> Num(10),
                  anomalies |-> Arr(<<>>)])
BodyAlarm == Obj([requests_per_min |-> Num(20), error_rate |-> Num(50),
                  anomalies |-> Arr(<<Str(TxtCritical), Str(TxtLatency)>>)])
BodyMixed == Obj([requests_per_min |-> Num(15), error_rate |-> Num(20),
                  anomalies |-> Arr(<<Str(TxtNear), Str(TxtLower), Str(TxtMixed),
                                      Str(TxtDotless)>>)])

Bodies == {BodyEmpty, BodyQuiet, BodyAlarm, BodyMixed}

\* a body with every field the script reads
BodyFull ==
    Obj([requests_per_min   |-> Num(15),
         error_rate         |-> Num(20),
         p50_latency        |-> Num(120),
         p95_latency        |-> Num(480),
         p99_latency        |-> Num(900),
         estimated_cost_usd |-> Num(123),
         per_user_requests  |-> Obj([alice_001 |-> Num(3), bob_002 |-> Num(1),
                                     charlie_003 |-> Num(3)]),
         anomalies          |-> Arr(<<Str(TxtCritical)>>)])

\* BodyFull with any of its fields left out
FieldBodies ==
    {Obj([key \in present |-> BodyFull.obj[key]]) :
        present \in SUBSET (DOMAIN BodyFull.obj)}

\* bodies that parse and are not what /metrics promises: not an object, or
\* an object with a field of another type
BodyArray == Arr(<<>>)
BodyNumber == Num(5)
BodyText == Str(<<"x">>)
BodyNullRate == Obj([requests_per_min |-> Num(10), error_rate |-> Null])
BodyTextRate == Obj([requests_per_min |-> Num(10),
                     error_rate |-> Str(<<"0", ".", "0", "5">>)])
BodyNullP95 == Obj([requests_per_min |-> Num(10), p95_latency |-> Null])
BodyNullP50 == Obj([requests_per_min |-> Num(10), p50_latency |-> Null])
BodyListUsers == Obj([per_user_requests |-> Arr(<<Num(1)>>)])
BodyNullAlert == Obj([anomalies |-> Arr(<<Str(TxtLatency), Null>>)])
BodyTextAlerts == Obj([anomalies |-> Str(<<"o", "k">>)])

OffContractBodies ==
    {BodyArray, Null, BodyNumber, BodyText, BodyNullRate, BodyTextRate, BodyNullP95,
     BodyNullP50, BodyListUsers, BodyNullAlert, BodyTextAlerts}

----------------------------------------------------------------------------
(* History rows *)

\* datetime.now().strftime("%H:%M:%S"): hours, minutes, seconds of the day
FormatTime(t) == <<(t \div 3600) % 24, (t \div 60) % 60, t % 60>>

\* faulty variant of line 77: the error rate stored as the fraction it came as
NewEntryFraction(d, t) ==
    [Time       |-> FormatTime(t),
     Throughput |-> Get(d, "requests_per_min", Num(0)),
     ErrorRate  |-> Get(d, "error_rate", Num(0))]

\* new_entry
NewEntry(d, t) ==
    [Time       |-> FormatTime(t),
     Throughput |-> Get(d, "requests_per_min", Num(0)),
     ErrorRate  |-> Times(Get(d, "error_rate", Num(0)), 100)]

\* lines 74-78 run without raising: data has .get (a list, a number, a
\* string and None have not), and error_rate can be multiplied by 100
EntryBuilds(d) == IsObj(d) /\ CanMultiply(Get(d, "error_rate", Num(0)))

\* faulty variant of line 79: the frame pd.concat returns is dropped
ConcatRowDropped(h, row) == h

\* pd.concat([history, pd.DataFrame([new_entry])], ignore_index=True)
ConcatRow(h, row) == Append(h, row)

\* faulty variants of tail(20): head(20), and a window one row short
TailRowsHead(h) ==
    IF Len(h) <= Capacity THEN h ELSE SubSeq(h, 1, Capacity)
TailRowsShort(h) ==
    IF Len(h) < Capacity THEN h ELSE SubSeq(h, Len(h) - Capacity + 2, Len(h))

\* history.tail(20)
TailRows(h) ==
    IF Len(h) <= Capacity THEN h ELSE SubSeq(h, Len(h) - Capacity + 1, Len(h))

\* history.set_index("Time")[name]: what a trend chart plots
Column(h, name) == [i \in 1..Len(h) |-> [Time |-> h[i].Time, value |-> h[i][name]]]

\* every value of the column is a number.  What st.area_chart and
\* st.line_chart do with a column that holds anything else is not fixed by
\* the script: the chart is drawn or the call raises.
Plottable(values) == \A i \in 1..Len(values) : IsNum(values[i])

----------------------------------------------------------------------------
(* The main UI *)

\* faulty variant of line 145: the test without .upper()
IncidentCaseSensitive(alert) ==
    IF Contains(alert, CRITICAL)
    THEN [kind |-> "error", text |-> alert]
    ELSE [kind |-> "warning", text |-> alert]

\* one pass of the loop body: st.error for CRITICAL, st.warning otherwise
Incident(alert) ==
    IF Contains(Upper(alert), CRITICAL)
    THEN [kind |-> "error", text |-> alert]
    ELSE [kind |-> "warning", text |-> alert]

\* what `for alert in anomalies` iterates over: the items of a list, the
\* characters of a string
Alerts(anomalies) ==
    CASE IsArr(anomalies) -> anomalies.arr
      [] IsStr(anomalies) -> [i \in 1..Len(anomalies.str) |-> Str(<<anomalies.str[i]>>)]

\* faulty variant of lines 149-150: st.success outside the else branch
NominalAlways(anomalies) == TRUE

\* `if anomalies:` is false, so the else branch runs
Nominal(anomalies) == Falsy(anomalies)

\* line 150: st.success("All systems nominal")
AllNominal == [kind |-> "success", text |-> <<>>]

\* f"{err*100:.1f}%": the percentage in tenths.  An error_rate given in
\* thousandths is a whole number of tenths of a percent.
ErrorKpi(err) == (err * 100 + 50) \div 100

\* user_df.sort_values("Requests"): one bar per user, by ascending count.
\* The order of users with equal counts is not fixed by the script (it
\* follows from the order of the keys in the body and from the sort
\* pandas picks): every ascending order is possible.
SortValues(counts) ==
    LET n == Cardinality(DOMAIN counts)
        orders == {s \in [1..n -> DOMAIN counts] :
                      \A i, j \in 1..n :
                          i < j => s[i] # s[j] /\ counts[s[i]].num <= counts[s[j]].num}
    IN  {[i \in 1..n |-> [user |-> order[i], Requests |-> counts[order[i]].num]] :
            order \in orders}

\* a place of the page that holds no element
Blank == [blank |-> TRUE]

\* nothing written to the page yet.  title and notice are the two elements
\* that can stand first in the main area; main says that the page is the
\* complete main UI of one run; exception names the line whose element the
\* traceback of an uncaught exception stands in place of
BlankView ==
    [title |-> FALSE, notice |-> FALSE, main |-> FALSE,
     throughput |-> Blank, errorRate |-> Blank, p95 |-> Blank, cost |-> Blank,
     charts |-> <<>>, errorChart |-> <<>>, latency |-> <<>>, users |-> <<>>,
     noUsers |-> FALSE, incidents |-> <<>>, sent |-> FALSE, exception |-> "none"]

\* lines 83-84: the notice, and nothing below it
NoticeView == [BlankView EXCEPT !.notice = TRUE]

\* the positions of lines 87-152 at which the run calls st.* to write an
\* element, in order, each with the places of the page it writes
RenderSteps ==
    <<[at |-> "L87",  writes |-> {"title"}],
      [at |-> "L93",  writes |-> {"throughput"}],
      [at |-> "L96",  writes |-> {"errorRate"}],
      [at |-> "L98",  writes |-> {"p95"}],
      [at |-> "L100", writes |-> {"cost"}],
      [at |-> "L102", writes |-> {}],
      [at |-> "L110", writes |-> {"charts"}],
      [at |-> "L114", writes |-> {"errorChart"}],
      [at |-> "L117", writes |-> {}],
      [at |-> "L126", writes |-> {"latency"}],
      [at |-> "L130", writes |-> {"users", "noUsers"}],
      [at |-> "L138", writes |-> {}],
      [at |-> "L142", writes |-> {"incidents"}],
      [at |-> "L152", writes |-> {}]>>

RenderPcs == {RenderSteps[i].at : i \in 1..Len(RenderSteps)}

\* the places a run has written when it has come to `at`
Written(at) ==
    LET n == CHOOSE i \in 1..Len(RenderSteps) : RenderSteps[i].at = at
    IN  UNION {RenderSteps[i].writes : i \in 1..(n - 1)}

\* the page when the run ends having written `places`, `rows` entries of the
\* incident log among them: what the run has not written leaves the page
Finished(v, places, sent, rows) ==
    [place \in DOMAIN BlankView |->
        IF place = "incidents" /\ place \in places THEN SubSeq(v.incidents, 1, rows)
        ELSE IF place \in places \/ (place = "sent" /\ sent) THEN v[place]
        ELSE BlankView[place]]

\* s with its i-th element set to e, appended when s is shorter
Put(s, i, e) == [j \in 1..(IF i > Len(s) THEN i ELSE Len(s)) |-> IF j = i THEN e ELSE s[j]]

----------------------------------------------------------------------------
\* the session opens on a backend serving `body`: the first run is about to start
Start(body) ==
    /\ history = <<>>
    /\ pc = "L13"
    /\ data = NoData
    /\ button = FALSE
    /\ posts = 0
    /\ toggle = TRUE
    /\ timerOn = FALSE
    /\ now = StartClock
    /\ backend = "up"
    /\ metrics = body
    /\ oldWait = 0
    /\ oldBurst = 0
    /\ view = BlankView
    /\ cause = "load"
    /\ log = <<>>
    /\ atStart = <<>>
    /\ clean = TRUE
    /\ events = 0
    /\ bursts = 0
    /\ failed = 0
    /\ got = <<>>
    /\ k_threshold = 15
    /\ entry = 0

Init == Start(BodyQuiet)

\* positions at which the next thing the run does is an st.* call or a
\* st.session_state access
YieldPcs == {"L13", "L45", "L66", "L79", "L80", "L83"} \cup RenderPcs

\* GET /metrics requests outstanding
InFlight == (IF pc = "wait" THEN 1 ELSE 0) + oldWait

----------------------------------------------------------------------------
(* Rerun requests.  The session starts a new run at once.  The run it      *)
(* replaces ends at its next yield point; if it is inside requests.get or  *)
(* the burst loop it first finishes that call or loop.  Between st.button  *)
(* (line 53) and the sending of the GET (line 70) a run does nothing that  *)
(* takes time, so a request arriving there is taken as arriving just after *)
(* the GET is sent.                                                        *)

Rerun(why, btn) ==
    /\ pc # "L70"
    /\ pc' = "L13"
    /\ data' = NoData
    /\ button' = btn
    /\ posts' = 0
    /\ cause' = why
    /\ oldWait' = IF pc = "wait" THEN oldWait + 1 ELSE oldWait
    /\ oldBurst' = IF pc = "burst" THEN oldBurst + 1 ELSE oldBurst
    /\ clean' = (clean /\ pc \notin {"L79", "L80"})
    /\ atStart' = history
    /\ failed' = 0
    /\ entry' = 0

\* line 42: the st_autorefresh timer fires
Tick(maxTicks, preempt) ==
    /\ timerOn
    /\ now < StartClock + RefreshSecs * maxTicks
    /\ preempt \/ pc = "idle"
    /\ now' = now + RefreshSecs
    /\ Rerun("timer", FALSE)
    /\ UNCHANGED <<history, toggle, timerOn, backend, metrics, view, log, events, bursts,
                   got, k_threshold>>

\* line 49: the user flips the toggle
UserToggle(budget) ==
    /\ events < budget
    /\ events' = events + 1
    /\ toggle' = ~toggle
    /\ Rerun("user", FALSE)
    /\ UNCHANGED <<history, timerOn, now, backend, metrics, view, log, bursts, got, k_threshold>>

\* the positions of the slider that the model tries: both ends and the default
KValues == {5, 15, 30}

\* line 50: the user moves the slider
UserSlider(budget) ==
    /\ events < budget
    /\ events' = events + 1
    /\ \E v \in KValues \ {k_threshold} : k_threshold' = v
    /\ Rerun("user", FALSE)
    /\ UNCHANGED <<history, toggle, timerOn, now, backend, metrics, view, log, bursts, got>>

\* line 53: the user presses "Generate Burst Logs"
UserBurst(budget) ==
    /\ bursts < budget
    /\ bursts' = bursts + 1
    /\ Rerun("user", TRUE)
    /\ UNCHANGED <<history, toggle, timerOn, now, backend, metrics, view, log, events,
                   got, k_threshold>>

----------------------------------------------------------------------------
(* The steps of a script run *)

\* lines 13-42: page config, styling, session history, st_autorefresh
PageSetup ==
    /\ pc = "L13"
    /\ pc' = "L45"
    /\ timerOn' = TRUE
    /\ UNCHANGED <<history, data, button, posts, toggle, now, backend, metrics,
                   oldWait, oldBurst, view, cause, log, atStart, clean, events, bursts,
                   failed, got, k_threshold, entry>>

\* lines 45-53: sidebar widgets; stream_active and k_threshold are assigned
\* and never read
Sidebar ==
    /\ pc = "L45"
    /\ pc' = IF button THEN "burst" ELSE "L70"
    /\ UNCHANGED <<history, data, button, posts, toggle, timerOn, now, backend, metrics,
                   oldWait, oldBurst, view, cause, log, atStart, clean, events, bursts,
                   failed, got, k_threshold, entry>>

\* lines 54-65: one iteration of the burst loop.  requests.post returns, or
\* raises (connection error, timeout=1) and the bare except swallows it
BurstPost ==
    /\ pc = "burst"
    /\ posts < BurstSize
    /\ posts' = posts + 1
    /\ \E raised \in BOOLEAN : failed' = IF raised THEN failed + 1 ELSE failed
    /\ pc' = IF posts + 1 = BurstSize THEN "L66" ELSE "burst"
    /\ UNCHANGED <<history, data, button, toggle, timerOn, now, backend, metrics,
                   oldWait, oldBurst, view, cause, log, atStart, clean, events, bursts,
                   got, k_threshold, entry>>

\* line 66: st.sidebar.success
BurstDone ==
    /\ pc = "L66"
    /\ pc' = "L70"
    /\ view' = [view EXCEPT !.sent = TRUE]
    /\ UNCHANGED <<history, data, button, posts, toggle, timerOn, now, backend, metrics,
                   oldWait, oldBurst, cause, log, atStart, clean, events, bursts,
                   failed, got, k_threshold, entry>>

\* line 70: requests.get is sent
FetchStart ==
    /\ pc = "L70"
    /\ pc' = "wait"
    /\ UNCHANGED <<history, data, button, posts, toggle, timerOn, now, backend, metrics,
                   oldWait, oldBurst, view, cause, log, atStart, clean, events, bursts,
                   failed, got, k_threshold, entry>>

\* lines 70-78: the response arrives and parses, and new_entry is built
FetchOK ==
    /\ pc = "wait"
    /\ backend = "up"
    /\ EntryBuilds(metrics)
    /\ data' = metrics
    /\ log' = Append(log, NewEntry(metrics, now))
    /\ got' = Append(got, metrics)
    /\ pc' = "L79"
    /\ UNCHANGED <<history, button, posts, toggle, timerOn, now, backend, metrics,
                   oldWait, oldBurst, view, cause, atStart, clean, events, bursts,
                   failed, k_threshold, entry>>

\* faulty variant of lines 69-84: a failed fetch falls through to line 79
\* with the defaults of data.get
FetchFailAppends ==
    /\ pc = "wait"
    /\ backend \in {"down", "garbled"}
    /\ history' = ConcatRow(history, NewEntry(BodyEmpty, now))
    /\ pc' = "L83"
    /\ UNCHANGED <<data, button, posts, toggle, timerOn, now, backend, metrics,
                   oldWait, oldBurst, view, cause, log, atStart, clean, events, bursts,
                   failed, got, k_threshold, entry>>

\* faulty variant of line 82: the except clause names the transport errors
\* only, so the ValueError of response.json() leaves the script
FetchFailTransportOnly ==
    /\ pc = "wait"
    /\ backend \in {"down", "garbled"}
    /\ pc' = IF backend = "down" THEN "L83" ELSE "idle"
    /\ view' = IF backend = "down" THEN view
               ELSE [BlankView EXCEPT !.exception = "L87", !.sent = button]
    /\ UNCHANGED <<history, data, button, posts, toggle, timerOn, now, backend, metrics,
                   oldWait, oldBurst, cause, log, atStart, clean, events, bursts,
                   failed, got, k_threshold, entry>>

\* lines 70-78, 82: the try block raises.  requests.get or response.json()
\* raises and data stays unbound; or the body parses, data is bound, and
\* building new_entry raises (AttributeError on data.get, TypeError on * 100)
FetchFail ==
    /\ pc = "wait"
    /\ \/ /\ backend \in {"down", "garbled"}
          /\ data' = data
       \/ /\ backend = "up"
          /\ ~EntryBuilds(metrics)
          /\ data' = metrics
    /\ pc' = "L83"
    /\ UNCHANGED <<history, button, posts, toggle, timerOn, now, backend, metrics,
                   oldWait, oldBurst, view, cause, log, atStart, clean, events, bursts,
                   failed, got, k_threshold, entry>>

\* line 79
Concat ==
    /\ pc = "L79"
    /\ history' = ConcatRow(history, NewEntry(data, now))
    /\ pc' = "L80"
    /\ UNCHANGED <<data, button, posts, toggle, timerOn, now, backend, metrics,
                   oldWait, oldBurst, view, cause, log, atStart, clean, events, bursts,
                   failed, got, k_threshold, entry>>

\* line 80
Trim ==
    /\ pc = "L80"
    /\ history' = TailRows(history)
    /\ pc' = "L87"
    /\ UNCHANGED <<data, button, posts, toggle, timerOn, now, backend, metrics,
                   oldWait, oldBurst, view, cause, log, atStart, clean, events, bursts,
                   failed, got, k_threshold, entry>>

\* faulty variant of lines 42 and 84: st_autorefresh placed below the fetch,
\* so that st.stop drops the timer from the page
UnreachableUnmounts ==
    /\ pc = "L83"
    /\ view' = [NoticeView EXCEPT !.sent = button]
    /\ timerOn' = FALSE
    /\ pc' = "idle"
    /\ UNCHANGED <<history, data, button, posts, toggle, now, backend, metrics,
                   oldWait, oldBurst, cause, log, atStart, clean, events, bursts,
                   failed, got, k_threshold, entry>>

\* faulty variant of lines 83-84: st.stop without st.error
UnreachableSilent ==
    /\ pc = "L83"
    /\ view' = [BlankView EXCEPT !.sent = button]
    /\ pc' = "idle"
    /\ UNCHANGED <<history, data, button, posts, toggle, timerOn, now, backend, metrics,
                   oldWait, oldBurst, cause, log, atStart, clean, events, bursts,
                   failed, got, k_threshold, entry>>

\* lines 83-84: st.error, st.stop; the elements of the previous run that
\* this run did not write again leave the page
Unreachable ==
    /\ pc = "L83"
    /\ view' = [NoticeView EXCEPT !.sent = button]
    /\ pc' = "idle"
    /\ UNCHANGED <<history, data, button, posts, toggle, timerOn, now, backend, metrics,
                   oldWait, oldBurst, cause, log, atStart, clean, events, bursts,
                   failed, got, k_threshold, entry>>

(* Lines 87-152, one step for each st.* call that writes an element to the *)
(* page.  The run can be stopped for a rerun before each of them, and then *)
(* the page keeps what the run had written over what the run before it had *)
(* left.  An exception that nothing catches ends the run: Streamlit writes *)
(* the traceback below the last element or block that the run opened at    *)
(* the top level of the page.                                              *)

\* what lines 87-152 leave alone
Others == <<history, data, button, posts, toggle, timerOn, now, backend, metrics,
            oldWait, oldBurst, cause, log, atStart, clean, events, bursts,
            failed, got, k_threshold>>

\* an exception leaves the script after the run has written `places`; the
\* traceback stands where the element of line `slot` would
Raise(places, slot) ==
    /\ pc' = "idle"
    /\ view' = [Finished(view, places, button, entry) EXCEPT !.exception = slot]
    /\ entry' = entry

\* line 87: st.title, in the place where the notice of line 83 would stand
Title ==
    /\ pc = "L87"
    /\ pc' = "L93"
    /\ view' = [view EXCEPT !.title = TRUE, !.notice = FALSE, !.main = FALSE]
    /\ UNCHANGED <<Others, entry>>

\* line 93: f"{...} RPM" formats a value of any type
MetricThroughput ==
    /\ pc = "L93"
    /\ pc' = "L96"
    /\ view' = [view EXCEPT !.throughput = Get(data, "requests_per_min", Num(0))]
    /\ UNCHANGED <<Others, entry>>

\* lines 95-96: err * 100 is a number, or a str or list that :.1f rejects
MetricErrorRate ==
    /\ pc = "L96"
    /\ LET err == Get(data, "error_rate", Num(0)) IN
       IF CanFormat(Times(err, 100))
       THEN /\ pc' = "L98"
            /\ view' = [view EXCEPT !.errorRate = Num(ErrorKpi(err.num))]
            /\ entry' = entry
       ELSE Raise(Written("L96"), "L102")
    /\ UNCHANGED Others

\* line 98
MetricP95 ==
    /\ pc = "L98"
    /\ LET p95 == Get(data, "p95_latency", Num(0)) IN
       IF CanFormat(p95)
       THEN /\ pc' = "L100"
            /\ view' = [view EXCEPT !.p95 = p95]
            /\ entry' = entry
       ELSE Raise(Written("L98"), "L102")
    /\ UNCHANGED Others

\* line 100
MetricCost ==
    /\ pc = "L100"
    /\ LET cost == Get(data, "estimated_cost_usd", Num(0)) IN
       IF CanFormat(cost)
       THEN /\ pc' = "L102"
            /\ view' = [view EXCEPT !.cost = cost]
            /\ entry' = entry
       ELSE Raise(Written("L100"), "L102")
    /\ UNCHANGED Others

\* lines 102, 117, 138: st.markdown("---") takes the place of a traceback
\* that an earlier run left there
Rule(at, next) ==
    /\ pc = at
    /\ pc' = next
    /\ view' = [view EXCEPT !.exception = IF @ = at THEN "none" ELSE @]
    /\ UNCHANGED <<Others, entry>>

\* line 110: st.area_chart of the Throughput column
AreaChart ==
    /\ pc = "L110"
    /\ LET rows == Column(history, "Throughput") IN
       \E drawn \in IF Plottable([i \in 1..Len(rows) |-> rows[i].value])
                    THEN {TRUE} ELSE BOOLEAN :
          IF drawn
          THEN /\ pc' = "L114"
               /\ view' = [view EXCEPT !.charts = rows]
               /\ entry' = entry
          ELSE Raise(Written("L110"), "L117")
    /\ UNCHANGED Others

\* line 114: st.line_chart of the ErrorRate column
LineChart ==
    /\ pc = "L114"
    /\ LET rows == Column(history, "ErrorRate") IN
       \E drawn \in IF Plottable([i \in 1..Len(rows) |-> rows[i].value])
                    THEN {TRUE} ELSE BOOLEAN :
          IF drawn
          THEN /\ pc' = "L117"
               /\ view' = [view EXCEPT !.errorChart = rows]
               /\ entry' = entry
          ELSE Raise(Written("L114"), "L117")
    /\ UNCHANGED Others

\* lines 122-126: the bar chart of P50, P95, P99
LatencyChart ==
    /\ pc = "L126"
    /\ LET ms == <<Get(data, "p50_latency", Num(0)), Get(data, "p95_latency", Num(0)),
                   Get(data, "p99_latency", Num(0))>> IN
       \E drawn \in IF Plottable(ms) THEN {TRUE} ELSE BOOLEAN :
          IF drawn
          THEN /\ pc' = "L130"
               /\ view' = [view EXCEPT !.latency = ms]
               /\ entry' = entry
          ELSE Raise(Written("L126"), "L138")
    /\ UNCHANGED Others

\* lines 130-135: the bar chart of the users, or st.info in its place.
\* from_dict raises on anything but a dict; a dict whose values are not
\* all numbers is not modelled.
UserDistribution ==
    /\ pc = "L130"
    /\ LET user_counts == Get(data, "per_user_requests", Obj(NoFields)) IN
       CASE Falsy(user_counts) ->
              /\ pc' = "L138"
              /\ view' = [view EXCEPT !.users = <<>>, !.noUsers = TRUE]
              /\ entry' = entry
         [] ~Falsy(user_counts) /\ ~IsObj(user_counts) ->
              Raise(Written("L130"), "L138")
         [] ~Falsy(user_counts) /\ IsObj(user_counts)
               /\ (\A u \in DOMAIN user_counts.obj : IsNum(user_counts.obj[u])) ->
              /\ pc' = "L138"
              /\ \E bars \in SortValues(user_counts.obj) :
                    view' = [view EXCEPT !.users = bars, !.noUsers = FALSE]
              /\ entry' = entry
    /\ UNCHANGED Others

\* lines 142-150: one pass of the loop over the anomalies, or the else
\* branch.  Each entry takes the next place of the box.  alert.upper() raises
\* on an alert that is not a str, `for` raises on a number; a dict of
\* anomalies is not modelled.
IncidentLog ==
    /\ pc = "L142"
    /\ LET anomalies == Get(data, "anomalies", Arr(<<>>)) IN
       CASE Nominal(anomalies) ->
              /\ pc' = "L152"
              /\ view' = [view EXCEPT !.incidents = Put(@, 1, AllNominal)]
              /\ entry' = 1
         [] ~Nominal(anomalies) /\ (IsArr(anomalies) \/ IsStr(anomalies)) ->
              LET alert == Alerts(anomalies)[entry + 1] IN
              IF IsStr(alert)
              THEN /\ pc' = IF entry + 1 = Len(Alerts(anomalies)) THEN "L152" ELSE "L142"
                   /\ view' = [view EXCEPT !.incidents = Put(@, entry + 1, Incident(alert.str))]
                   /\ entry' = entry + 1
              ELSE Raise(Written("L142") \cup {"incidents"}, "L152")
         [] ~Nominal(anomalies) /\ IsNum(anomalies) ->
              Raise(Written("L142"), "L152")
    /\ UNCHANGED Others

\* line 152: st.caption, the last call: the run ends, and what it has not
\* written leaves the page
Caption ==
    /\ pc = "L152"
    /\ pc' = "idle"
    /\ view' = [Finished(view, Written("L152"), button, entry) EXCEPT !.main = TRUE]
    /\ UNCHANGED <<Others, entry>>

\* lines 87-152
Render ==
    \/ Title
    \/ MetricThroughput
    \/ MetricErrorRate
    \/ MetricP95
    \/ MetricCost
    \/ Rule("L102", "L110")
    \/ AreaChart
    \/ LineChart
    \/ Rule("L117", "L126")
    \/ LatencyChart
    \/ UserDistribution
    \/ Rule("L138", "L142")
    \/ IncidentLog
    \/ Caption

----------------------------------------------------------------------------
(* Stopped runs and the backend *)

\* line 70 in a stopped run: its GET returns and the run ends at line 79 or 83
OldFetchReturn ==
    /\ oldWait > 0
    /\ oldWait' = oldWait - 1
    /\ UNCHANGED <<history, pc, data, button, posts, toggle, timerOn, now, backend,
                   metrics, oldBurst, view, cause, log, atStart, clean, events, bursts,
                   failed, got, k_threshold, entry>>

\* lines 54-66 in a stopped run: the loop has no yield point, so the run
\* issues the rest of its POSTs and ends at st.sidebar.success
OldBurstEnd ==
    /\ oldBurst > 0
    /\ oldBurst' = oldBurst - 1
    /\ UNCHANGED <<history, pc, data, button, posts, toggle, timerOn, now, backend,
                   metrics, oldWait, view, cause, log, atStart, clean, events, bursts,
                   failed, got, k_threshold, entry>>

\* the backend goes down, garbles its bodies or comes back
BackendMode(budget) ==
    /\ events < budget
    /\ events' = events + 1
    /\ \E m \in {"up", "down", "garbled"} \ {backend} : backend' = m
    /\ UNCHANGED <<history, pc, data, button, posts, toggle, timerOn, now, metrics,
                   oldWait, oldBurst, view, cause, log, atStart, clean, bursts,
                   failed, got, k_threshold, entry>>

\* the backend's aggregate changes
BackendMetrics(budget) ==
    /\ events < budget
    /\ events' = events + 1
    /\ \E b \in Bodies \ {metrics} : metrics' = b
    /\ UNCHANGED <<history, pc, data, button, posts, toggle, timerOn, now, backend,
                   oldWait, oldBurst, view, cause, log, atStart, clean, bursts,
                   failed, got, k_threshold, entry>>

----------------------------------------------------------------------------
\* polling with a user at the toggle and a backend that changes: the timer
\* fires between runs, the user's reruns arrive at any line
Next ==
    \/ PageSetup
    \/ Sidebar
    \/ FetchStart
    \/ FetchOK
    \/ FetchFail
    \/ Concat
    \/ Trim
    \/ Unreachable
    \/ Render
    \/ Tick(MaxTicks, FALSE)
    \/ UserToggle(MaxEvents)
    \/ OldFetchReturn
    \/ BackendMode(MaxEvents)
    \/ BackendMetrics(MaxEvents)

Spec == Init /\ [][Next]_vars

\* long polling against one body: the timer fires only between runs, the
\* user and the backend disturb it a few times
NextFill ==
    \/ PageSetup
    \/ Sidebar
    \/ FetchStart
    \/ FetchOK
    \/ FetchFail
    \/ Concat
    \/ Trim
    \/ Unreachable
    \/ Render
    \/ Tick(FillTicks, FALSE)
    \/ UserToggle(MaxFaults)
    \/ OldFetchReturn
    \/ BackendMode(MaxFaults)

SpecFill == Init /\ [][NextFill]_vars

\* polling with a user at the burst button
NextBurst ==
    \/ PageSetup
    \/ Sidebar
    \/ BurstPost
    \/ BurstDone
    \/ FetchStart
    \/ FetchOK
    \/ FetchFail
    \/ Concat
    \/ Trim
    \/ Unreachable
    \/ Render
    \/ Tick(BurstTicks, TRUE)
    \/ UserBurst(MaxBursts)
    \/ OldFetchReturn
    \/ OldBurstEnd
    \/ BackendMode(BurstFaults)

SpecBurst == Init /\ [][NextBurst]_vars

\* polling against a backend that fails and recovers.  The script thread
\* always gets to run, every request ends (timeout=3 on line 70), and the
\* browser timer of st_autorefresh keeps firing while it is mounted.
NextLive ==
    \/ PageSetup
    \/ Sidebar
    \/ FetchStart
    \/ FetchOK
    \/ FetchFail
    \/ Concat
    \/ Trim
    \/ Unreachable
    \/ Render
    \/ Tick(LiveTicks, TRUE)
    \/ OldFetchReturn
    \/ BackendMode(LiveFaults)

Fairness ==
    /\ WF_vars(PageSetup)
    /\ WF_vars(Sidebar)
    /\ WF_vars(FetchStart)
    /\ WF_vars(FetchOK)
    /\ WF_vars(FetchFail)
    /\ WF_vars(Concat)
    /\ WF_vars(Trim)
    /\ WF_vars(Unreachable)
    /\ WF_vars(Render)
    /\ WF_vars(Tick(LiveTicks, TRUE))

SpecLive == Init /\ [][NextLive]_vars /\ Fairness

\* short polling against a backend whose body lacks any of the fields, or is
\* not what /metrics promises
InitFields == \E body \in FieldBodies \cup OffContractBodies : Start(body)

NextFields ==
    \/ PageSetup
    \/ Sidebar
    \/ FetchStart
    \/ FetchOK
    \/ FetchFail
    \/ Concat
    \/ Trim
    \/ Unreachable
    \/ Render
    \/ Tick(FieldTicks, FALSE)
    \/ BackendMode(FieldFaults)

SpecFields == InitFields /\ [][NextFields]_vars

\* polling with a user at the toggle and the slider
NextWidgets ==
    \/ PageSetup
    \/ Sidebar
    \/ FetchStart
    \/ FetchOK
    \/ FetchFail
    \/ Concat
    \/ Trim
    \/ Unreachable
    \/ Render
    \/ Tick(WidgetTicks, TRUE)
    \/ UserToggle(WidgetEvents)
    \/ UserSlider(WidgetEvents)
    \/ OldFetchReturn
    \/ BackendMode(WidgetEvents)

SpecWidgets == Init /\ [][NextWidgets]_vars
----------------------------------------------------------------------------
(* Properties *)

Min(a, b) == IF a <= b THEN a ELSE b

\* the last n elements of s
LastRows(s, n) == SubSeq(s, Len(s) - n + 1, Len(s))

\* two characters that differ at most in case: the same character, or the
\* lower-case and the upper-case form of one letter
SameLetter(a, b) == a = b \/ \E i \in 1..Len(Lo) : {a, b} = {Lo[i], Up[i]}

\* s contains t, compared case-insensitively
ContainsIgnoringCase(s, t) ==
    \E off \in 0..(Len(s) - Len(t)) : \A j \in 1..Len(t) : SameLetter(s[off + j], t[j])

\* the run has finished rendering the main view and nothing has happened since
JustRendered == pc = "idle" /\ view.main

\* the error and warning entries that the incident log shows
Entries == SelectSeq(view.incidents, LAMBDA e : e.kind # "success")

\* the incident log shows "All systems nominal"
ShowsNominal == \E i \in 1..Len(view.incidents) : view.incidents[i].kind = "success"

\* the run has ended in the backend-unreachable notice
JustFailed == pc = "idle" /\ view.notice

\* C1: starting from the empty history, after N successful fetch cycles (none
\* of them cut short) the history holds min(N, 20) rows, and they are the rows
\* derived from the last min(N, 20) successful fetches, oldest first.
C1_BoundedHistory ==
    (clean /\ pc \notin {"L79", "L80"}) =>
        /\ Len(history) = Min(Len(log), Capacity)
        /\ history = LastRows(log, Min(Len(log), Capacity))

\* 22 fetches have succeeded and the two oldest rows are gone
C1_Witness ==
    /\ pc = "idle"
    /\ Len(log) = Capacity + 2
    /\ Len(history) = Capacity
    /\ history[1] = log[3]
    /\ history[Capacity] = log[Capacity + 2]

\* C2: a cycle whose fetch fails leaves the history and the run's snapshot as
\* they were when the cycle began: nothing appended, evicted, reordered or
\* changed.
C2_FailureIsolation ==
    (pc = "L83" \/ JustFailed) => (history = atStart /\ data = NoData)

\* a cycle has failed with rows in the history
C2_Witness == JustFailed /\ Len(history) >= 2 /\ history = atStart

\* C3 as stated: at most one GET /metrics is outstanding at any instant.
C3_SingleFlight == InFlight <= 1

\* C4: appending to a history of 20 rows drops exactly the oldest row and
\* keeps the other 19 in order, followed by the new row; appending to a
\* history of fewer than 20 rows drops nothing.
C4_FifoEviction ==
    /\ [][(pc = "L79" /\ pc' = "L80") =>
            history' = Append(history, NewEntry(data, now))]_vars
    /\ [][(pc = "L80" /\ pc' = "L87") =>
            /\ Len(history) <= Capacity => history' = history
            /\ Len(history) = Capacity + 1 =>
                  /\ Len(history') = Capacity
                  /\ \A i \in 1..Capacity : history'[i] = history[i + 1]]_vars

\* a row was appended to a full history: the oldest row went, the new one is last
C4_Witness ==
    /\ pc = "L87"
    /\ Len(atStart) = Capacity
    /\ Len(history) = Capacity
    /\ \A i \in 1..(Capacity - 1) : history[i] = atStart[i + 1]
    /\ history[Capacity] = NewEntry(data, now)
    /\ atStart[1] \notin {history[i] : i \in 1..Capacity}

\* C5 as stated: the history never holds more than 20 rows, the states between
\* line 79 and line 80 included.
C5_NeverOverCapacity == Len(history) <= Capacity

\* C6: the i-th entry of the incident log shows the i-th anomaly, as an error
\* exactly when its text contains "CRITICAL" in any letter case, and as a
\* warning otherwise.
C6_Classification ==
    JustRendered =>
        LET anomalies == Get(data, "anomalies", Arr(<<>>)).arr IN
        /\ Len(Entries) = Len(anomalies)
        /\ \A i \in 1..Len(anomalies) :
              /\ Entries[i].text = anomalies[i].str
              /\ Entries[i].kind \in {"error", "warning"}
              /\ Entries[i].kind = "error"
                    <=> ContainsIgnoringCase(anomalies[i].str, CRITICAL)

\* a near miss, a lower-case text, a mixed-case text and a text with dotless
\* i have been classified
C6_Witness ==
    /\ JustRendered
    /\ data = BodyMixed
    /\ [i \in 1..4 |-> view.incidents[i].kind] = <<"warning", "error", "error", "error">>

\* C7: the "all nominal" state is shown exactly when the snapshot has no
\* anomalies (an absent field included), never together with an entry, and a
\* cycle without anomalies shows no entry.
C7_NominalIffEmpty ==
    JustRendered =>
        LET none == Get(data, "anomalies", Arr(<<>>)) = Arr(<<>>) IN
        /\ ShowsNominal <=> none
        /\ ~(ShowsNominal /\ Entries # <<>>)
        /\ none => Entries = <<>>

\* a body without the anomalies field has been rendered as nominal
C7_Witness == JustRendered /\ data = BodyEmpty /\ view.incidents = <<AllNominal>>

\* the timer can still fire within the bound of SpecLive
TimerLeft == now < StartClock + RefreshSecs * LiveTicks

\* the run is waiting for a backend that answers, after a failed cycle
Recovering == pc = "wait" /\ view.notice /\ backend = "up"

\* C8: a failed fetch does not end the polling: the failed cycle ends with
\* the notice, a later poll is attempted, and a poll that the backend answers
\* appends its row to the history the failure left in place (unless a rerun
\* stops that run or the backend fails again before it answers).
C8_PollingSurvives ==
    /\ (pc = "L83") ~> (JustFailed \/ pc = "L13")
    /\ (JustFailed /\ TimerLeft) ~> (pc = "wait")
    /\ Recovering ~>
          \/ JustRendered /\ history = Append(atStart, NewEntry(data, now))
          \/ pc = "L13"
          \/ pc = "wait" /\ backend # "up"

\* after a failed cycle the backend has answered a later poll; the rows from
\* before the failure are still there
C8_Witness ==
    /\ pc = "L79"
    /\ view.notice
    /\ cause = "timer"
    /\ Len(history) >= 1
    /\ history = atStart

\* C9: whenever the main view is rendered, the charts show the session history
\* and its newest row is the one derived from the snapshot in the KPI cards.
C9_SettledPair ==
    (pc \in RenderPcs \/ JustRendered) =>
        /\ Len(history) > 0
        /\ history[Len(history)].Throughput = Get(data, "requests_per_min", Num(0))
        /\ history[Len(history)].ErrorRate = Times(Get(data, "error_rate", Num(0)), 100)
        /\ history[Len(history)].Time = FormatTime(now)
        /\ JustRendered =>
              /\ view.charts = Column(history, "Throughput")
              /\ view.errorChart = Column(history, "ErrorRate")
              /\ view.throughput = history[Len(history)].Throughput

\* two cycles with different snapshots have been rendered
C9_Witness ==
    /\ JustRendered
    /\ Len(history) >= 2
    /\ view.throughput = Num(20)
    /\ history[Len(history) - 1].Throughput = Num(10)

\* C10 as stated: a run requested by the timer exists only while the toggle
\* is on.
C10_ToggleGatesTimer == (cause = "timer" /\ pc # "idle") => toggle

\* C11 as stated: the burst does not hold the polling cycle back: the run that
\* sends the burst has its GET /metrics under way before the 30 sends are done.
C11_BurstDoesNotBlock == (button /\ pc = "wait") => posts < BurstSize

\* C12 as stated: a fetch fails exactly when the transport fails or the body
\* does not parse; every body that parses takes the run through to the full
\* view without an exception, one row is appended, and every field that the
\* body lacks is shown as zero, as no users or as no anomalies
C12_AbsentFieldsDefault ==
    /\ [][(pc = "wait" /\ pc' \in {"L79", "L83"})
            => ((pc' = "L83") <=> (backend \in {"down", "garbled"}))]_vars
    /\ [][(pc \in RenderPcs)
            => (pc' \in RenderPcs \/ (pc = "L152" /\ pc' = "idle"))]_vars
    /\ [][(pc = "L152" /\ pc' = "idle")
            => (view'.main /\ ~view'.notice /\ view'.exception = "none")]_vars
    /\ [](JustRendered =>
            /\ Len(history) = Len(atStart) + 1
            /\ SubSeq(history, 1, Len(atStart)) = atStart
            /\ "requests_per_min" \notin DOMAIN data.obj
                  => view.throughput = Num(0) /\ history[Len(history)].Throughput = Num(0)
            /\ "error_rate" \notin DOMAIN data.obj
                  => view.errorRate = Num(0) /\ history[Len(history)].ErrorRate = Num(0)
            /\ "p50_latency" \notin DOMAIN data.obj => view.latency[1] = Num(0)
            /\ "p95_latency" \notin DOMAIN data.obj
                  => view.latency[2] = Num(0) /\ view.p95 = Num(0)
            /\ "p99_latency" \notin DOMAIN data.obj => view.latency[3] = Num(0)
            /\ "estimated_cost_usd" \notin DOMAIN data.obj => view.cost = Num(0)
            /\ "per_user_requests" \notin DOMAIN data.obj
                  => view.users = <<>> /\ view.noUsers
            /\ "anomalies" \notin DOMAIN data.obj
                  => view.incidents = <<AllNominal>>)

\* C13 as stated: the run that handles a press of the burst button leaves
\* lines 53-66 only with its 30 POSTs attempted, whichever of them failed,
\* and with the "sent" confirmation on the page
C13_BurstConfirms ==
    [][(pc \in {"burst", "L66"} /\ pc' \notin {"burst", "L66"})
        => (posts' = BurstSize /\ view'.sent /\ ~view'.exception)]_vars

\* C14 as stated: only a run that the timer (or the page load) started sends
\* GET /metrics or appends a row; a run started by the toggle, the slider or
\* the burst button does neither
C14_OnlyTimerFetches ==
    (pc \in {"wait", "L79", "L80"}) => (cause \in {"load", "timer"})

\* C15: when a run has ended, the page shows the backend-unreachable notice
\* exactly if the fetch of that run failed; with the notice there is nothing
\* of the main view, and a run whose fetch succeeded puts its title in the
\* place of a notice that an earlier run left and ends with the full view
C15_NoticeForFailedCycleOnly ==
    /\ [](pc = "idle" =>
            /\ view.notice <=> (data = NoData)
            /\ view.main <=> (data # NoData)
            /\ view.notice => view = [NoticeView EXCEPT !.sent = view.sent]
            /\ view.main =>
                  /\ view.title
                  /\ view.throughput # Blank /\ view.errorRate # Blank
                  /\ view.p95 # Blank /\ view.cost # Blank
                  /\ view.charts = Column(history, "Throughput")
                  /\ view.errorChart = Column(history, "ErrorRate")
                  /\ Len(view.latency) = 3
                  /\ view.noUsers \/ view.users # <<>>
                  /\ view.incidents # <<>>)
    /\ [][(pc = "L87" /\ pc' = "L93") => (view'.title /\ ~view'.notice)]_vars
    /\ [][(pc = "L152" /\ pc' = "idle") => (view'.main /\ ~view'.notice)]_vars
    /\ [][(pc = "L83" /\ pc' = "idle") => (view'.notice /\ ~view'.main)]_vars

\* a run whose fetch succeeded is about to draw the main view over the
\* notice that the failed run before it left on the page
C15_Witness ==
    /\ pc = "L87"
    /\ view.notice
    /\ data # NoData
    /\ history # <<>>

\* C16: as long as no run was stopped between its fetch and line 80, the
\* history has one row per successful fetch, in the order of the fetches,
\* with the body's requests_per_min as throughput and its error_rate times
\* 100 as error-rate percent; three fetches of 10, 20, 15 requests per
\* minute and error rates 0.01, 0.05, 0.02 leave throughputs 10, 20, 15 and
\* percentages 1, 5, 2 (1000, 5000, 2000 thousandths of a percent)
C16_OneRecordPerFetch ==
    clean =>
        /\ Len(history) = IF pc = "L79" THEN Len(got) - 1 ELSE Len(got)
        /\ \A i \in 1..Len(history) :
              /\ history[i].Throughput = Get(got[i], "requests_per_min", Num(0))
              /\ history[i].ErrorRate = Num(100 * Get(got[i], "error_rate", Num(0)).num)
        /\ (pc # "L79" /\ Len(got) = 3
              /\ [i \in 1..3 |-> Get(got[i], "requests_per_min", Num(0)).num] = <<10, 20, 15>>
              /\ [i \in 1..3 |-> Get(got[i], "error_rate", Num(0)).num] = <<10, 50, 20>>)
             => /\ [i \in 1..3 |-> history[i].Throughput.num] = <<10, 20, 15>>
                /\ [i \in 1..3 |-> history[i].ErrorRate.num] = <<1000, 5000, 2000>>

\* the three fetches of the scenario have been rendered
C16_Witness ==
    /\ clean
    /\ JustRendered
    /\ got = <<BodyQuiet, BodyAlarm, BodyMixed>>
    /\ Len(history) = 3
    /\ history[2].ErrorRate = Num(5000)

\* C17: a body that does not parse and a transport failure are handled
\* alike: either takes the run from the fetch to line 83 with nothing else
\* changed, and the run ends with the history as it found it, the notice and
\* nothing else on the page, no exception, and the timer still mounted
C17_GarbledLikeDown ==
    /\ [][(pc = "wait" /\ backend \in {"down", "garbled"} /\ pc' \notin {"wait", "L13"})
            => (pc' = "L83" /\ UNCHANGED <<history, data, view, timerOn, log, got>>)]_vars
    /\ []((pc = "idle" /\ data = NoData) =>
            /\ history = atStart
            /\ view = [NoticeView EXCEPT !.sent = button]
            /\ timerOn)

\* the backend has garbled its bodies, nothing else has changed, and a run
\* that found a non-empty history has ended on the notice
C17_Witness ==
    /\ JustFailed
    /\ backend = "garbled"
    /\ events = 1
    /\ history # <<>>
    /\ history = atStart

====
